---- MODULE Spec2Model ----
(***************************************************************************)
(* Model of the banana-nft-backend commit/reveal engine.                   *)
(*                                                                         *)
(* The backend is a single node.js process: every handler runs without     *)
(* interruption up to its next `await` on a network call, so each action   *)
(* below is one such run-to-await segment.  The JSON files of              *)
(* models/data.js are the variables mintedData, batches, tokenURIs and     *)
(* loggedUsers; every getX() is a read of the whole variable and every     *)
(* saveX() replaces the whole variable.  The ledger contract (MerkleNFT)   *)
(* is the variable ledger.                                                 *)
(*                                                                         *)
(* Times are in seconds.  response is the value the last finished call    *)
(* returned.  recorded (the ranges of the batches mintNFTs has pushed),    *)
(* interleaved, lastHeartbeat (per owner, the time of the last             *)
(* updateUserHeartbeat call, 0 when there was none) and the field `commit` *)
(* of a batch are history variables: the code does not store them and no   *)
(* guard reads them.  clients is the set of addresses that requests carry; *)
(* it never changes.                                                       *)
(***************************************************************************)
EXTENDS Integers, Sequences, FiniteSets, TLC

VARIABLES clients, uriDistribution, merkle, now, mintedData, tokenURIs,
          batches, loggedUsers, ledger, mint, cleanup, reveal, response,
          recorded, interleaved, lastHeartbeat

vars == <<clients, uriDistribution, merkle, now, mintedData, tokenURIs,
          batches, loggedUsers, ledger, mint, cleanup, reveal, response,
          recorded, interleaved, lastHeartbeat>>

----------------------------------------------------------------------------
(* Bounds of the model *)

MaxTime == 3

(* the largest number of leaves of a tree built on its own *)
MaxLeaves == 3
MaxSchedTime == 4
MaxCommits == 2
MaxSlots == 2

(* Program constants, scaled down: the defaults are 300 s, 5 tokens,       *)
(* 300 s and 300 s                                                         *)

RevealThreshold == 1
NFTsPerUser == 2
UserInactivitySeconds == 2
MintIntervalSeconds == 2

Slots == 1..MaxSlots
Addresses == {"0xA", "0xa", "0xb"}
Quantities == 1..(NFTsPerUser + 1)
URIs == {"ipfs://banana", "ipfs://peel"}

toLowerCase(a) == IF a = "0xA" THEN "0xa" ELSE a
Owners == {toLowerCase(a) : a \in Addresses}

NoUser == "none"
Empty == [k \in {} |-> "none"]

----------------------------------------------------------------------------
(* Helpers *)

Range(s) == {s[i] : i \in DOMAIN s}

Ids(startId, count) == startId..(startId + count - 1)

BatchIds(b) == Ids(b.tokenIdRange[1], b.tokenIdRange[2])

Merge(f, g) == [k \in (DOMAIN f) \cup (DOMAIN g) |->
                  IF k \in DOMAIN g THEN g[k] ELSE f[k]]

Restrict(f, S) == [k \in (DOMAIN f) \cap S |-> f[k]]

(* Byte strings are sequences of numbers.  tokenId.toString() in ASCII     *)
RECURSIVE toString(_)
toString(n) ==
    IF n < 10 THEN <<48 + n>> ELSE toString(n \div 10) \o <<48 + (n % 10)>>

(* the bytes of a URI string *)
utf8(uri) ==
    IF uri = "ipfs://banana"
    THEN <<105, 112, 102, 115, 58, 47, 47, 98, 97, 110, 97, 110, 97>>
    ELSE <<105, 112, 102, 115, 58, 47, 47, 112, 101, 101, 108>>

RECURSIVE Sum(_)
Sum(bytes) == IF bytes = <<>> THEN 0 ELSE Head(bytes) + Sum(Tail(bytes))

(* keccak256 as a collision-free digest: one mixing byte, which orders     *)
(* digests unlike their preimages, then the preimage with its length, so   *)
(* that equal digests have equal preimages and two digests written one     *)
(* after the other can be told apart.                                      *)
keccak256(bytes) == <<(5 * Sum(bytes)) % 7, Len(bytes)>> \o bytes

(* Buffer.compare, and the < of two bytes32 values: byte by byte *)
RECURSIVE compare(_, _)
compare(a, b) ==
    IF a = <<>> THEN (IF b = <<>> THEN 0 ELSE -1)
    ELSE IF b = <<>> THEN 1
    ELSE IF Head(a) < Head(b) THEN -1
    ELSE IF Head(a) > Head(b) THEN 1
    ELSE compare(Tail(a), Tail(b))

(* leaf = keccak256(Buffer.from(tokenId.toString())): the hash of the      *)
(* identifier alone                                                        *)
Leaf(tokenId) == keccak256(toString(tokenId))

(* mutant of LeavesOk: generateLeaves never throws *)
LeavesOkUnchecked(startTokenId, count, uris) == TRUE

(* generateLeaves: throws when an identifier of the range has no URI       *)
LeavesOk(startTokenId, count, uris) ==
    \A id \in Ids(startTokenId, count) : id \in DOMAIN uris

(* mutant of generateLeaves: the URI is hashed into the leaf *)
generateLeavesWithURIs(startTokenId, count, uris) ==
    [i \in 1..count |->
       keccak256(toString(startTokenId + i - 1)
                   \o utf8(uris[startTokenId + i - 1]))]

generateLeaves(startTokenId, count, uris) ==
    [i \in 1..count |-> Leaf(startTokenId + i - 1)]

(* mutant of hashPair: the pair is hashed in the order given *)
hashPairUnsorted(a, b) == keccak256(a \o b)

(* a pair of nodes hashed in sorted order: sortPairs of the tree, and      *)
(* _hashPair of MerkleProof                                                *)
hashPair(a, b) ==
    IF compare(a, b) = -1 THEN keccak256(a \o b) ELSE keccak256(b \o a)

(* Array.sort(Buffer.compare) of the leaves, by insertion *)
RECURSIVE Insert(_, _)
Insert(x, sorted) ==
    IF sorted = <<>> THEN <<x>>
    ELSE IF compare(x, Head(sorted)) = 1
         THEN <<Head(sorted)>> \o Insert(x, Tail(sorted))
    ELSE <<x>> \o sorted

RECURSIVE sortLeaves(_)
sortLeaves(leaves) ==
    IF leaves = <<>> THEN <<>>
    ELSE Insert(Head(leaves), sortLeaves(Tail(leaves)))

(* one layer of the tree from the layer below: nodes are paired from the   *)
(* left and an odd last node moves up as it is                             *)
RECURSIVE NextLayer(_)
NextLayer(nodes) ==
    IF Len(nodes) = 0 THEN <<>>
    ELSE IF Len(nodes) = 1 THEN nodes
    ELSE <<hashPair(nodes[1], nodes[2])>>
         \o NextLayer(SubSeq(nodes, 3, Len(nodes)))

RECURSIVE Layers(_)
Layers(nodes) ==
    IF Len(nodes) <= 1 THEN <<nodes>>
    ELSE <<nodes>> \o Layers(NextLayer(nodes))

(* new MerkleTree(leaves, keccak256, {sort: true}): the layers of the tree, *)
(* the sorted leaves first and the root last                               *)
MerkleTreeUnsorted(leaves) == Layers(leaves)
MerkleTree(leaves) == Layers(sortLeaves(leaves))

(* getHexRoot() *)
getHexRoot(tree) ==
    IF tree[Len(tree)] = <<>> THEN <<>> ELSE tree[Len(tree)][1]

MerkleRoot(leaves) == getHexRoot(MerkleTree(leaves))

(* the siblings on the path from the leaf at `index` (from 0) to the root *)
RECURSIVE Siblings(_, _, _)
Siblings(tree, i, index) ==
    IF i > Len(tree) THEN <<>>
    ELSE LET pairIndex == IF index % 2 = 1 THEN index - 1 ELSE index + 1
         IN  (IF pairIndex < Len(tree[i])
              THEN <<tree[i][pairIndex + 1]>> ELSE <<>>)
             \o Siblings(tree, i + 1, index \div 2)

(* getHexProof(leaf): the leaf is looked up among the sorted leaves, and a *)
(* leaf that is not in the tree has the empty proof                        *)
getHexProof(tree, leaf) ==
    LET found == {i \in DOMAIN tree[1] : tree[1][i] = leaf}
    IN  IF found = {} THEN <<>>
        ELSE Siblings(tree, 1, (CHOOSE i \in found :
                                   \A j \in found : j <= i) - 1)

(* MerkleProof.processProof: the root a proof rebuilds from a leaf *)
RECURSIVE processProof(_, _)
processProof(proof, computedHash) ==
    IF proof = <<>> THEN computedHash
    ELSE processProof(Tail(proof), hashPair(computedHash, Head(proof)))

(* MerkleProof.verify(proof, root, leaf) *)
verify(proof, root, leaf) == processProof(proof, leaf) = root

(* the contract's leaf: keccak256(abi.encodePacked(tokenId, _uri)), the    *)
(* 32 bytes of the uint256 followed by the bytes of the string            *)
encodePacked(tokenId, uri) ==
    [i \in 1..32 |-> IF i = 32 THEN tokenId ELSE 0] \o utf8(uri)

ContractLeaf(tokenId, uri) == keccak256(encodePacked(tokenId, uri))

(* the validity tests as each component writes them: cleanupExpiredBatches, *)
(* cleanupUserBatches, cleanupExpiredTokenURIs, revealNFT, getUserNFTs     *)

(* mutant of CleanupKeeps: the boundary second is kept *)
CleanupKeepsInclusive(b, t) == t - b.timestamp <= RevealThreshold

CleanupKeeps(b, t) == t - b.timestamp < RevealThreshold

UserCleanupRemoves(b, t) == t - b.timestamp >= RevealThreshold

URIsValid(b, t) == t - b.timestamp < RevealThreshold

(* timestamp 0 stands for a record without the field: `now - undefined`   *)
(* is NaN and every comparison with NaN is false                           *)
RevealExpired(b, t) == b.timestamp # 0 /\ t - b.timestamp > RevealThreshold

Revealable(b, t) == t - b.timestamp < RevealThreshold

(* mutant of WithTimestamp: a record without a timestamp is stamped now *)
WithTimestampNow(b, t) ==
    IF b.timestamp = 0 THEN [b EXCEPT !.timestamp = t] ELSE b

(* batch.timestamp = now - (revealThreshold + 60) for a record without one *)
WithTimestamp(b, t) ==
    IF b.timestamp = 0 THEN [b EXCEPT !.timestamp = t - (RevealThreshold + 60)]
    ELSE b

----------------------------------------------------------------------------
(* Initial state: the files as initFiles() writes them, no call in flight *)

IdleMint == [pc |-> "idle", user |-> NoUser, quantity |-> 0, startTokenId |-> 0,
             mintedData |-> [lastTokenId |-> 0, users |-> [o \in Owners |-> <<>>]],
             tokenURIs |-> Empty, merkleRoot |-> <<>>, rootIndex |-> 0]

(* owner is the lower-cased address of a runUserCleanup pass; remove says  *)
(* that the pass was started by DELETE /users/:address, which removes the  *)
(* Account Record when the pass returns                                    *)
IdleCleanup == [pc |-> "idle", owner |-> NoUser, batches |-> <<>>,
                tokenURIs |-> Empty, batchesRemoved |-> 0, remove |-> FALSE]

NoBatch == [user |-> NoUser, tokenIdRange |-> <<0, 0>>, merkleRoot |-> <<>>,
            timestamp |-> 0, commit |-> 0]

(* rootIndex, proof and uri are the arguments of a contract.reveal call   *)
(* that is awaited                                                         *)
IdleReveal == [pc |-> "idle", tokenId |-> 0, batch |-> NoBatch,
               rootIndex |-> 0, proof |-> <<>>, uri |-> "none"]

(* the values a call returns: op names the function, success its           *)
(* `success` field; a reveal that reached contract.reveal carries the      *)
(* arguments of that call and the batch it was made for                    *)
NoResponse == [op |-> "none", success |-> TRUE]

MintResponse(ok) ==
    IF ok THEN [op |-> "mintNFTs", success |-> TRUE]
    ELSE [op |-> "mintNFTs", success |-> FALSE, error |-> "error"]

CleanupResponse(batchesRemoved, urisRemoved) ==
    [op |-> "runCleanup", success |-> TRUE,
     batchesRemoved |-> batchesRemoved, urisRemoved |-> urisRemoved]

(* the answer of DELETE /users/:address *)
RemoveResponse(address) == [op |-> "removeUser", success |-> TRUE, address |-> address]

(* the result of the catch block of runCleanup and runUserCleanup *)
CleanupFailure(error) ==
    [op |-> "runCleanup", success |-> FALSE, error |-> error]

RevealFailure(error) == [op |-> "revealNFT", success |-> FALSE, error |-> error]

(* mutant of RevealExpiredFailure: the threshold is reported as the        *)
(* elapsed time                                                            *)
RevealExpiredReportsThreshold(batch, t) ==
    [op |-> "revealNFT", success |-> FALSE, error |-> "expired",
     timeElapsed |-> RevealThreshold, revealThreshold |-> RevealThreshold]

(* "Reveal period has expired for this token", with timeElapsed and        *)
(* revealThreshold                                                         *)
RevealExpiredFailure(batch, t) ==
    [op |-> "revealNFT", success |-> FALSE, error |-> "expired",
     timeElapsed |-> t - batch.timestamp, revealThreshold |-> RevealThreshold]

(* the result of a reveal whose transaction was mined *)
RevealResponse(tokenId, uri) ==
    [op |-> "revealNFT", success |-> TRUE, tokenId |-> tokenId, uri |-> uri]

RevealSubmitted(tokenId, rootIndex, proof, uri, batch) ==
    [op |-> "reveal", tokenId |-> tokenId, rootIndex |-> rootIndex,
     proof |-> proof, uri |-> uri, batch |-> batch]

(* no tree is being built *)
NoTree == [pc |-> "none"]

Stores ==
    /\ now = 1
    /\ mintedData = [lastTokenId |-> 0, users |-> [o \in Owners |-> <<>>]]
    /\ tokenURIs = Empty
    /\ batches = <<>>
    /\ loggedUsers = Empty
    /\ ledger = [merkleRoots |-> <<>>, tokenIdCounter |-> 0, minted |-> <<>>]
    /\ mint = [s \in Slots |-> IdleMint]
    /\ cleanup = IdleCleanup
    /\ reveal = IdleReveal
    /\ response = NoResponse
    /\ recorded = <<>>
    /\ interleaved = FALSE
    /\ lastHeartbeat = [o \in Owners |-> 0]

(* one owner, written in two letter cases, and one design to draw from *)
Init ==
    /\ clients = {"0xA", "0xa"} /\ uriDistribution = {"ipfs://banana"}
    /\ merkle = NoTree /\ Stores

(* two owners *)
InitTwoOwners ==
    /\ clients = Addresses /\ uriDistribution = {"ipfs://banana"}
    /\ merkle = NoTree /\ Stores

----------------------------------------------------------------------------
(* mintNFTs *)

(* the tokens one mintWithMerkle call mints: _quantity identifiers from   *)
(* the contract's own counter, to _user                                    *)
Minted(user, firstTokenId, quantity) ==
    [user |-> user, tokenIdRange |-> <<firstTokenId, quantity>>]

IdleSlots == {s \in Slots : mint[s].pc = "idle"}

(* the commits the ledger has taken plus those still in flight stay        *)
(* within MaxCommits when n more calls start                               *)
RoomFor(n) ==
    /\ Cardinality(IdleSlots) >= n
    /\ Len(ledger.merkleRoots)
         + Cardinality({s \in Slots : mint[s].pc = "sent"}) + n <= MaxCommits

(* mintNFTs up to `await contract.mintWithMerkle(...)`: the call as it is  *)
(* suspended, holding its own copies of mintedData and tokenURIs           *)
MintCall(userAddress, quantity, uris) ==
    LET normalizedAddress == toLowerCase(userAddress)
        capped == IF quantity > NFTsPerUser THEN NFTsPerUser ELSE quantity
        startTokenId == mintedData.lastTokenId + 1
        minted == Merge(tokenURIs,
                        [id \in Ids(startTokenId, capped) |-> uris[id]])
        leaves == generateLeaves(startTokenId, capped, minted)
    IN  [pc |-> "sent",
         user |-> normalizedAddress,
         quantity |-> capped,
         startTokenId |-> startTokenId,
         mintedData |-> mintedData,
         tokenURIs |-> minted,
         merkleRoot |-> MerkleRoot(leaves),
         rootIndex |-> 0]

(* getRandomURI() for every identifier a call of this quantity allocates *)
URIChoices(quantity) ==
    LET capped == IF quantity > NFTsPerUser THEN NFTsPerUser ELSE quantity
    IN  [Ids(mintedData.lastTokenId + 1, capped) -> uriDistribution]

Lowest(S) == CHOOSE s \in S : \A t \in S : s <= t

(* MerkleNFT.mintWithMerkle executes on the ledger: the transaction of a   *)
(* suspended call is mined                                                 *)
LedgerCommit(s) ==
    /\ mint[s].pc = "sent"
    /\ ledger' = [merkleRoots |-> Append(ledger.merkleRoots, mint[s].merkleRoot),
                  tokenIdCounter |-> ledger.tokenIdCounter + mint[s].quantity,
                  minted |-> Append(ledger.minted,
                                    Minted(mint[s].user,
                                           ledger.tokenIdCounter + 1,
                                           mint[s].quantity))]
    /\ mint' = [mint EXCEPT ![s].pc = "mined",
                            ![s].rootIndex = Len(ledger.merkleRoots)]
    /\ UNCHANGED <<clients, uriDistribution, merkle, lastHeartbeat, now, mintedData, tokenURIs, batches, loggedUsers,
                   cleanup, reveal, response, recorded>>

(* mutant of MintFail: the failed attempt is stamped as a mint *)
MintFailStampsMintTime(s) ==
    /\ mint[s].pc \in {"sent", "mined"}
    /\ mint' = [mint EXCEPT ![s] = IdleMint]
    /\ loggedUsers' =
         IF mint[s].user \in DOMAIN loggedUsers
         THEN [loggedUsers EXCEPT ![mint[s].user].lastMintTime = now]
         ELSE loggedUsers
    /\ response' = MintResponse(FALSE)
    /\ UNCHANGED <<clients, uriDistribution, merkle, lastHeartbeat, now, mintedData, tokenURIs, batches, ledger,
                   cleanup, reveal, recorded>>

(* mutant of MintFail: the URIs generated before the commit are saved *)
MintFailSavesURIs(s) ==
    /\ mint[s].pc \in {"sent", "mined"}
    /\ mint' = [mint EXCEPT ![s] = IdleMint]
    /\ tokenURIs' = mint[s].tokenURIs
    /\ response' = MintResponse(FALSE)
    /\ UNCHANGED <<clients, uriDistribution, merkle, lastHeartbeat, now, mintedData, batches, loggedUsers, ledger,
                   cleanup, reveal, recorded>>

(* mintWithMerkle or tx.wait() rejects (the transaction was refused, or   *)
(* the provider failed while waiting, whether or not the transaction was   *)
(* mined): the catch block returns {success: false} and nothing is saved   *)
MintFail(s) ==
    /\ mint[s].pc \in {"sent", "mined"}
    /\ mint' = [mint EXCEPT ![s] = IdleMint]
    /\ response' = MintResponse(FALSE)
    /\ UNCHANGED <<clients, uriDistribution, merkle, lastHeartbeat, now, mintedData, tokenURIs, batches, loggedUsers, ledger,
                   cleanup, reveal, recorded>>

(* mutant of updateUserLastMintTime: the record is written whether or not *)
(* the store still holds it                                                *)
updateUserLastMintTimeCreates(users, address) ==
    LET normalizedAddress == toLowerCase(address)
    IN  Merge(users, [a \in {normalizedAddress} |->
                        [lastActive |-> 0, lastMintTime |-> now]])

(* updateUserLastMintTime *)
updateUserLastMintTime(users, address) ==
    LET normalizedAddress == toLowerCase(address)
    IN  IF normalizedAddress \in DOMAIN users
        THEN [users EXCEPT ![normalizedAddress].lastMintTime = now]
        ELSE users

(* the batch record mintNFTs pushes; commit is the history field *)
NewBatch(s) ==
    [user |-> mint[s].user,
     tokenIdRange |-> <<mint[s].startTokenId, mint[s].quantity>>,
     merkleRoot |-> mint[s].merkleRoot,
     timestamp |-> now,
     commit |-> mint[s].rootIndex]

(* the mintedData the call saves: its own copy, updated *)
SavedMintedData(s) ==
    LET m == mint[s]
    IN  [lastTokenId |-> m.startTokenId + m.quantity - 1,
         users |-> [m.mintedData.users EXCEPT ![m.user] =
                       Append(@, <<m.startTokenId, m.quantity>>)]]

(* mutant of SavedBatches: the list is not read again after the await,    *)
(* the call saves the records of the identifiers below its own             *)
SavedBatchesNotReread(s) ==
    LET Before(b) == b.tokenIdRange[1] < mint[s].startTokenId
    IN  Append(SelectSeq(batches, Before), NewBatch(s))

(* the batch list the call saves: a fresh read with the new batch pushed *)
SavedBatches(s) == Append(batches, NewBatch(s))

(* the URI map the call saves: its own copy *)
SavedTokenURIs(s) == mint[s].tokenURIs

(* mintNFTs after `await tx.wait()`: the local writes *)
(* writeJSON throws in the k-th save of a mint (saveMintedNFTData,        *)
(* saveBatches, saveTokenURIs): the saves before it are on disk, the catch *)
(* block of mintNFTs returns the failure                                   *)
MintWriteFail(s, k) ==
    /\ mint[s].pc = "mined"
    /\ k \in 1..3
    /\ mintedData' = IF k > 1 THEN SavedMintedData(s) ELSE mintedData
    /\ batches' = IF k > 2 THEN SavedBatches(s) ELSE batches
    /\ recorded' = IF k > 2 THEN Append(recorded, NewBatch(s).tokenIdRange)
                   ELSE recorded
    /\ mint' = [mint EXCEPT ![s] = IdleMint]
    /\ response' = MintResponse(FALSE)
    /\ UNCHANGED <<clients, uriDistribution, merkle, lastHeartbeat, now, tokenURIs, loggedUsers, ledger, cleanup, reveal>>

MintRecord(s) ==
    /\ mint[s].pc = "mined"
    /\ mintedData' = SavedMintedData(s)
    /\ batches' = SavedBatches(s)
    /\ tokenURIs' = SavedTokenURIs(s)
    /\ loggedUsers' = updateUserLastMintTime(loggedUsers, mint[s].user)
    /\ recorded' = Append(recorded, NewBatch(s).tokenIdRange)
    /\ mint' = [mint EXCEPT ![s] = IdleMint]
    /\ response' = MintResponse(TRUE)
    /\ UNCHANGED <<clients, uriDistribution, merkle, lastHeartbeat, now, ledger, cleanup, reveal>>

----------------------------------------------------------------------------
(* updateUserHeartbeat and the routes that start a mint *)

isFirstLogin(address) == toLowerCase(address) \notin DOMAIN loggedUsers

(* mutant of wasInactive: the threshold in seconds is compared with a      *)
(* difference of clock readings without scaling, so any gap is inactivity  *)
wasInactiveUnscaled(address) ==
    /\ toLowerCase(address) \in DOMAIN loggedUsers
    /\ now - loggedUsers[toLowerCase(address)].lastActive > 0

wasInactive(address) ==
    /\ toLowerCase(address) \in DOMAIN loggedUsers
    /\ now - loggedUsers[toLowerCase(address)].lastActive > UserInactivitySeconds

HeartbeatTriggers(address, triggerMint) ==
    triggerMint /\ (isFirstLogin(address) \/ wasInactive(address))

(* mutant of HeartbeatUsers: a new record counts as minted now *)
HeartbeatUsersStamped(address) ==
    LET normalizedAddress == toLowerCase(address)
    IN  IF normalizedAddress \notin DOMAIN loggedUsers
        THEN Merge(loggedUsers,
                   [a \in {normalizedAddress} |->
                       [lastActive |-> now, lastMintTime |-> now]])
        ELSE [loggedUsers EXCEPT ![normalizedAddress].lastActive = now]

(* the Account Records updateUserHeartbeat saves *)
HeartbeatUsers(address) ==
    LET normalizedAddress == toLowerCase(address)
    IN  IF normalizedAddress \notin DOMAIN loggedUsers
        THEN Merge(loggedUsers,
                   [a \in {normalizedAddress} |->
                       [lastActive |-> now, lastMintTime |-> 0]])
        ELSE [loggedUsers EXCEPT ![normalizedAddress].lastActive = now]

(* updateUserHeartbeat(address, triggerMint) up to the await inside        *)
(* mintNFTsForUser: the record is saved, and a first login or a return     *)
(* after inactivity starts mintNFTs(address, NFTsPerUser)                  *)
updateUserHeartbeat(address, triggerMint) ==
    /\ loggedUsers' = HeartbeatUsers(address)
    /\ lastHeartbeat' = [lastHeartbeat EXCEPT ![toLowerCase(address)] = now]
    /\ IF HeartbeatTriggers(address, triggerMint)
       THEN /\ RoomFor(1)
            /\ \E uris \in URIChoices(NFTsPerUser) :
                 mint' = [mint EXCEPT ![Lowest(IdleSlots)] =
                             MintCall(address, NFTsPerUser, uris)]
       ELSE mint' = mint

(* POST /users/heartbeat *)
Heartbeat(address, triggerMint) ==
    /\ updateUserHeartbeat(address, triggerMint)
    /\ UNCHANGED <<clients, uriDistribution, merkle, now, mintedData, tokenURIs, batches, ledger,
                   cleanup, reveal, response, recorded>>

(* POST /nft/mint: validateAddress calls updateUserHeartbeat(address)      *)
(* without awaiting it, then the handler calls mintNFTs(address, quantity) *)
MintRoute(address, quantity) ==
    /\ loggedUsers' = HeartbeatUsers(address)
    /\ lastHeartbeat' = [lastHeartbeat EXCEPT ![toLowerCase(address)] = now]
    /\ IF HeartbeatTriggers(address, TRUE)
       THEN /\ RoomFor(2)
            /\ \E uris1 \in URIChoices(NFTsPerUser), uris2 \in URIChoices(quantity) :
                 LET s1 == Lowest(IdleSlots)
                     s2 == Lowest(IdleSlots \ {s1})
                 IN  mint' = [mint EXCEPT
                                 ![s1] = MintCall(address, NFTsPerUser, uris1),
                                 ![s2] = MintCall(address, quantity, uris2)]
       ELSE /\ RoomFor(1)
            /\ \E uris \in URIChoices(quantity) :
                 mint' = [mint EXCEPT ![Lowest(IdleSlots)] =
                             MintCall(address, quantity, uris)]
    /\ UNCHANGED <<clients, uriDistribution, merkle, now, mintedData, tokenURIs, batches, ledger,
                   cleanup, reveal, response, recorded>>

----------------------------------------------------------------------------
(* the minting cycle and the offline check of models/users.js *)

(* mutant of MintDue: an account is due only after the interval has passed *)
MintDueLate(lastMintTime, t) ==
    lastMintTime = 0 \/ t - lastMintTime > MintIntervalSeconds

(* checkAndMintForUser: now - lastMintTime >= mintInterval.  Date.now()    *)
(* counts from 1970 and the clock of the model from 1, so a lastMintTime   *)
(* of 0 (never minted) is further back than any interval.                  *)
MintDue(lastMintTime, t) ==
    lastMintTime = 0 \/ t - lastMintTime >= MintIntervalSeconds

(* mutant of DueAccounts: only an account never minted for is served *)
DueAccountsNeverMinted ==
    {a \in DOMAIN loggedUsers : loggedUsers[a].lastMintTime = 0}

(* the accounts for which checkAndMintForUser calls mintNFTsForUser *)
DueAccounts ==
    {a \in DOMAIN loggedUsers : MintDue(loggedUsers[a].lastMintTime, now)}

(* the calls of one timer callback: each runs up to its await on           *)
(* contract.mintWithMerkle before the next starts, so all of them read the *)
(* same mintedData and tokenURIs                                           *)
RECURSIVE StartMints(_, _, _)
StartMints(m, due, uris) ==
    IF due = {} THEN m
    ELSE LET a == CHOOSE x \in due : TRUE
             s == Lowest({i \in Slots : m[i].pc = "idle"})
         IN  StartMints([m EXCEPT ![s] = MintCall(a, NFTsPerUser, uris[a])],
                        due \ {a}, uris)

(* the setInterval callback of startUserMintingCycles: checkAndMintForUser *)
(* for every Account Record                                                *)
CadenceTick ==
    /\ RoomFor(Cardinality(DueAccounts))
    /\ \E uris \in [DueAccounts -> URIChoices(NFTsPerUser)] :
         mint' = StartMints(mint, DueAccounts, uris)
    /\ UNCHANGED <<clients, uriDistribution, merkle, lastHeartbeat, now, mintedData, tokenURIs, batches,
                   loggedUsers, ledger, cleanup, reveal, response, recorded>>

(* mutant of Offline: an account at exactly the threshold is offline *)
OfflineInclusive(data, t) == t - data.lastActive >= UserInactivitySeconds

(* checkOfflineUsers: now - data.lastActive > inactivityThreshold *)
Offline(data, t) == t - data.lastActive > UserInactivitySeconds

(* checkOfflineUsers (the 60 s timer and GET /users/cleanup) *)
checkOfflineUsers ==
    /\ loggedUsers' = Restrict(loggedUsers,
                               {a \in DOMAIN loggedUsers :
                                  ~Offline(loggedUsers[a], now)})
    /\ UNCHANGED <<clients, uriDistribution, merkle, lastHeartbeat, now, mintedData, tokenURIs, batches,
                   ledger, mint, cleanup, reveal, response, recorded>>

----------------------------------------------------------------------------
(* cleanup service *)

(* mutant of ValidBatches: no batch is taken for expired *)
ValidBatchesKeepsAll(read, t) == read

(* cleanupExpiredBatches after its await: the list it keeps, from the      *)
(* list it read before the await                                           *)
ValidBatches(read, t) ==
    LET stamped == [i \in DOMAIN read |-> WithTimestamp(read[i], t)]
        Keep(b) == CleanupKeeps(b, t)
    IN  SelectSeq(stamped, Keep)

(* cleanupUserBatches after its await: the owner's batches to remove and   *)
(* the list it saves                                                       *)
BatchesToRemove(read, owner, t) ==
    LET stamped == [i \in DOMAIN read |-> WithTimestamp(read[i], t)]
        Gone(b) == b.user = toLowerCase(owner) /\ UserCleanupRemoves(b, t)
    IN  SelectSeq(stamped, Gone)

(* mutant of UpdatedBatches: a batch is dropped by its root alone *)
UpdatedBatchesByRoot(read, owner, t) ==
    LET rootsToRemove == {b.merkleRoot : b \in Range(BatchesToRemove(read, owner, t))}
        stamped == [i \in DOMAIN read |->
                      IF read[i].user = toLowerCase(owner)
                      THEN WithTimestamp(read[i], t) ELSE read[i]]
        Stay(b) == b.merkleRoot \notin rootsToRemove
    IN  SelectSeq(stamped, Stay)

(* mutant of UpdatedBatches: the stamps go to every batch of the list *)
UpdatedBatchesStampsAll(read, owner, t) ==
    LET rootsToRemove == {b.merkleRoot : b \in Range(BatchesToRemove(read, owner, t))}
        stamped == [i \in DOMAIN read |-> WithTimestamp(read[i], t)]
        Stay(b) == b.user # toLowerCase(owner) \/ b.merkleRoot \notin rootsToRemove
    IN  SelectSeq(stamped, Stay)

UpdatedBatches(read, owner, t) ==
    LET rootsToRemove == {b.merkleRoot : b \in Range(BatchesToRemove(read, owner, t))}
        stamped == [i \in DOMAIN read |->
                      IF read[i].user = toLowerCase(owner)
                      THEN WithTimestamp(read[i], t) ELSE read[i]]
        Stay(b) == b.user # toLowerCase(owner) \/ b.merkleRoot \notin rootsToRemove
    IN  SelectSeq(stamped, Stay)

(* cleanupExpiredTokenURIs after its await: the map it keeps, from the     *)
(* map and the batch list it read before the await                         *)
ValidTokenIds(read, t) ==
    UNION {BatchIds(b) : b \in {c \in Range(read) : URIsValid(c, t)}}

CleanedTokenURIs(readURIs, readBatches, t) ==
    Restrict(readURIs, ValidTokenIds(readBatches, t))

(* removeUser(address): the Account Records it saves *)
removeUser(address) ==
    Restrict(loggedUsers, DOMAIN loggedUsers \ {toLowerCase(address)})

(* runCleanup (the hourly timer and GET /nft/cleanup) up to the await in   *)
(* cleanupExpiredBatches: the batch list is read                           *)
RunCleanup ==
    /\ cleanup.pc = "idle"
    /\ cleanup' = [IdleCleanup EXCEPT !.pc = "batches", !.batches = batches]
    /\ interleaved' = FALSE
    /\ UNCHANGED <<clients, uriDistribution, merkle, lastHeartbeat, now, mintedData, tokenURIs, batches, loggedUsers, ledger,
                   mint, reveal, response, recorded>>

(* GET /nft/cleanup/:address: validateAddress, then runUserCleanup up to   *)
(* the await in cleanupUserBatches                                         *)
RunUserCleanup(address) ==
    /\ cleanup.pc = "idle"
    /\ updateUserHeartbeat(address, TRUE)
    /\ cleanup' = [IdleCleanup EXCEPT !.pc = "batches", !.batches = batches,
                                      !.owner = toLowerCase(address)]
    /\ interleaved' = FALSE
    /\ UNCHANGED <<clients, uriDistribution, merkle, now, mintedData, tokenURIs, batches, ledger,
                   reveal, response, recorded>>

(* DELETE /users/:address: the address is validated without a heartbeat,   *)
(* runUserCleanup runs up to the await in cleanupUserBatches; removeUser   *)
(* follows when runUserCleanup has returned                                *)
DeleteUser(address) ==
    /\ cleanup.pc = "idle"
    /\ cleanup' = [IdleCleanup EXCEPT !.pc = "batches", !.batches = batches,
                                      !.owner = toLowerCase(address),
                                      !.remove = TRUE]
    /\ interleaved' = FALSE
    /\ UNCHANGED <<clients, uriDistribution, merkle, lastHeartbeat, now, mintedData, tokenURIs, batches, loggedUsers, ledger,
                   mint, reveal, response, recorded>>

(* the batch sweep resumes, writes, returns its count, and the URI sweep   *)
(* starts in the same turn: it reads the URI map and the batch list        *)
SweepBatches ==
    /\ cleanup.pc = "batches"
    /\ LET read == cleanup.batches
           valid == ValidBatches(read, now)
           gone == BatchesToRemove(read, cleanup.owner, now)
           removedCount == IF cleanup.owner = NoUser
                           THEN Len(read) - Len(valid) ELSE Len(gone)
           saved == IF removedCount = 0 THEN batches
                    ELSE IF cleanup.owner = NoUser THEN valid
                    ELSE UpdatedBatches(read, cleanup.owner, now)
       IN  /\ batches' = saved
           /\ cleanup' = [cleanup EXCEPT !.pc = "uris",
                                         !.batches = saved,
                                         !.tokenURIs = tokenURIs,
                                         !.batchesRemoved = removedCount]
    /\ UNCHANGED <<clients, uriDistribution, merkle, lastHeartbeat, now, mintedData, tokenURIs, loggedUsers, ledger,
                   mint, reveal, response, recorded, interleaved>>

(* whether the sweep that is about to resume has something to save *)
SweepWrites ==
    \/ /\ cleanup.pc = "batches"
       /\ IF cleanup.owner = NoUser
          THEN Len(ValidBatches(cleanup.batches, now)) < Len(cleanup.batches)
          ELSE Len(BatchesToRemove(cleanup.batches, cleanup.owner, now)) > 0
    \/ /\ cleanup.pc = "uris"
       /\ DOMAIN CleanedTokenURIs(cleanup.tokenURIs, cleanup.batches, now)
            # DOMAIN cleanup.tokenURIs

(* mutant of CleanupFail: the exception leaves runCleanup *)
CleanupFailThrows ==
    /\ SweepWrites
    /\ cleanup' = [cleanup EXCEPT !.pc = "thrown"]
    /\ UNCHANGED <<clients, uriDistribution, merkle, lastHeartbeat, now, mintedData, tokenURIs, batches, loggedUsers, ledger,
                   mint, reveal, response, recorded, interleaved>>

(* writeJSON throws in the save of a sweep: nothing is written, the catch  *)
(* block of runCleanup / runUserCleanup returns the failure and the sweep  *)
(* that would follow is skipped                                            *)
CleanupFail ==
    /\ SweepWrites
    /\ cleanup' = IdleCleanup
    /\ response' = IF cleanup.remove THEN RemoveResponse(cleanup.owner)
                   ELSE CleanupFailure("error")
    /\ loggedUsers' = IF cleanup.remove THEN removeUser(cleanup.owner)
                      ELSE loggedUsers
    /\ UNCHANGED <<clients, uriDistribution, merkle, lastHeartbeat, now, mintedData, tokenURIs, batches, ledger,
                   mint, reveal, recorded, interleaved>>

(* the URI sweep resumes and writes; the pass ends *)
SweepTokenURIs ==
    /\ cleanup.pc = "uris"
    /\ LET cleaned == CleanedTokenURIs(cleanup.tokenURIs, cleanup.batches, now)
           removedCount == Cardinality(DOMAIN cleanup.tokenURIs)
                             - Cardinality(DOMAIN cleaned)
       IN  /\ tokenURIs' = IF removedCount > 0 THEN cleaned ELSE tokenURIs
           /\ cleanup' = IdleCleanup
           /\ response' = IF cleanup.remove THEN RemoveResponse(cleanup.owner)
                          ELSE CleanupResponse(cleanup.batchesRemoved, removedCount)
    /\ loggedUsers' = IF cleanup.remove THEN removeUser(cleanup.owner)
                      ELSE loggedUsers
    /\ UNCHANGED <<clients, uriDistribution, merkle, lastHeartbeat, now, mintedData, batches, ledger,
                   mint, reveal, recorded, interleaved>>

----------------------------------------------------------------------------
(* revealNFT *)

(* getUserNFTs(userAddress).tokenIds: the identifiers of the ranges in     *)
(* mintedData.users[address]                                               *)
getUserNFTs(userAddress) ==
    LET ranges == mintedData.users[toLowerCase(userAddress)]
    IN  UNION {Ids(ranges[i][1], ranges[i][2]) : i \in DOMAIN ranges}

MaxTokenId == MaxCommits * NFTsPerUser

TokenIds == 1..MaxTokenId

(* mutant of Owns: the owner of the batch is not compared *)
OwnsAnyUser(b, userAddress, tokenId) ==
    /\ tokenId >= b.tokenIdRange[1]
    /\ tokenId < b.tokenIdRange[1] + b.tokenIdRange[2]

Owns(b, userAddress, tokenId) ==
    /\ b.user = toLowerCase(userAddress)
    /\ tokenId >= b.tokenIdRange[1]
    /\ tokenId < b.tokenIdRange[1] + b.tokenIdRange[2]

(* findBatchForToken: the first batch of the list that owns the token *)
HasBatchForToken(userAddress, tokenId) ==
    \E i \in DOMAIN batches : Owns(batches[i], userAddress, tokenId)

findBatchForToken(userAddress, tokenId) ==
    batches[Lowest({i \in DOMAIN batches : Owns(batches[i], userAddress, tokenId)})]

(* batches.findIndex((b) => b.merkleRoot === batch.merkleRoot), 0-based,   *)
(* -1 when no batch of the list has the root                               *)
findIndex(list, merkleRoot) ==
    LET hits == {i \in DOMAIN list : list[i].merkleRoot = merkleRoot}
    IN  IF hits = {} THEN -1 ELSE Lowest(hits) - 1

(* POST /nft/reveal: validateAddress, then revealNFT up to                 *)
(* `await contractConfig.getRevealThreshold()`                             *)
RevealRoute(address, tokenId) ==
    /\ reveal.pc = "idle"
    /\ updateUserHeartbeat(address, TRUE)
    /\ IF HasBatchForToken(address, tokenId)
       THEN /\ reveal' = [IdleReveal EXCEPT
                            !.pc = "threshold", !.tokenId = tokenId,
                            !.batch = findBatchForToken(address, tokenId)]
            /\ response' = response
       ELSE /\ reveal' = IdleReveal
            /\ response' = RevealFailure("notfound")
    /\ UNCHANGED <<clients, uriDistribution, merkle, now, mintedData, tokenURIs, batches, ledger,
                   cleanup, recorded>>

(* the outcome of revealNFT after the await, up to contract.reveal(...) *)
RevealOutcome(batch, tokenId, t) ==
    IF RevealExpired(batch, t) THEN "expired"
    ELSE IF tokenId \notin DOMAIN tokenURIs THEN "nouri"
    ELSE IF ~LeavesOk(batch.tokenIdRange[1], batch.tokenIdRange[2], tokenURIs)
         THEN "error"
    ELSE "submitted"

(* the proof revealNFT extracts: the tree is rebuilt from the range of the *)
(* batch and the stored URIs, the leaf is leaves[tokenId - startId]        *)
RevealProof(batch, tokenId) ==
    LET leaves == generateLeaves(batch.tokenIdRange[1], batch.tokenIdRange[2],
                                 tokenURIs)
        tokenIndex == tokenId - batch.tokenIdRange[1]
    IN  getHexProof(MerkleTree(leaves), leaves[tokenIndex + 1])

(* revealNFT resumes: expiry check, URI lookup, proof, rootIndex, and the  *)
(* call of contract.reveal(tokenId, rootIndex, proof, uri)                 *)
RevealCheck ==
    /\ reveal.pc = "threshold"
    /\ LET outcome == RevealOutcome(reveal.batch, reveal.tokenId, now)
       IN  /\ reveal' =
                IF outcome = "submitted"
                THEN [reveal EXCEPT
                        !.pc = "sent",
                        !.rootIndex = findIndex(batches, reveal.batch.merkleRoot),
                        !.proof = RevealProof(reveal.batch, reveal.tokenId),
                        !.uri = tokenURIs[reveal.tokenId]]
                ELSE IdleReveal
           /\ response' =
                IF outcome = "submitted"
                THEN RevealSubmitted(reveal.tokenId,
                                     findIndex(batches, reveal.batch.merkleRoot),
                                     RevealProof(reveal.batch, reveal.tokenId),
                                     tokenURIs[reveal.tokenId], reveal.batch)
                ELSE IF outcome = "expired"
                THEN RevealExpiredFailure(reveal.batch, now)
                ELSE RevealFailure(outcome)
    /\ UNCHANGED <<clients, uriDistribution, merkle, lastHeartbeat, now, mintedData, tokenURIs, batches, loggedUsers, ledger,
                   mint, cleanup, recorded>>

(* the checks of MerkleNFT.reveal on the arguments of the call: the root  *)
(* index, the URI and the proof against the contract's own leaf.  The      *)
(* contract tests the revealed flag and its own reveal window before       *)
(* these, and they can only reject more.                                   *)
ContractAccepts(tokenId, rootIndex, proof, uri) ==
    /\ rootIndex \in 0..(Len(ledger.merkleRoots) - 1)
    /\ Len(utf8(uri)) > 0
    /\ verify(proof, ledger.merkleRoots[rootIndex + 1],
              ContractLeaf(tokenId, uri))

(* mutant of RevealSettle: the URI of the token is dropped from the map *)
RevealSettleDropsURI ==
    /\ reveal.pc = "sent"
    /\ reveal' = IdleReveal
    /\ tokenURIs' = Restrict(tokenURIs, DOMAIN tokenURIs \ {reveal.tokenId})
    /\ response' =
         IF ContractAccepts(reveal.tokenId, reveal.rootIndex, reveal.proof,
                            reveal.uri)
         THEN RevealResponse(reveal.tokenId, reveal.uri)
         ELSE RevealFailure("reverted")
    /\ UNCHANGED <<clients, uriDistribution, merkle, lastHeartbeat, now, mintedData, batches, loggedUsers, ledger,
                   mint, cleanup, recorded>>

(* revealNFT after `await contract.reveal(...)` and `await tx.wait()`: the *)
(* transaction was mined and the call returns success, or it was refused   *)
(* or reverted and the catch block returns the failure                     *)
RevealSettle ==
    /\ reveal.pc = "sent"
    /\ reveal' = IdleReveal
    /\ response' =
         IF ContractAccepts(reveal.tokenId, reveal.rootIndex, reveal.proof,
                            reveal.uri)
         THEN RevealResponse(reveal.tokenId, reveal.uri)
         ELSE RevealFailure("reverted")
    /\ UNCHANGED <<clients, uriDistribution, merkle, lastHeartbeat, now, mintedData, tokenURIs, batches, loggedUsers, ledger,
                   mint, cleanup, recorded>>

----------------------------------------------------------------------------
(* time and the next-state relation *)

(* the clock advances by a second, up to the horizon of the run *)
TickTo(horizon) ==
    /\ now < horizon
    /\ now' = now + 1
    /\ UNCHANGED <<clients, uriDistribution, merkle, lastHeartbeat, mintedData, tokenURIs, batches, loggedUsers, ledger,
                   mint, cleanup, reveal, response, recorded, interleaved>>

Tick == TickTo(MaxTime)

(* a step of another handler while a cleanup pass is suspended *)
Other == interleaved' = (cleanup.pc # "idle")

Mints ==
    \/ \E a \in clients : Heartbeat(a, TRUE) /\ Other
    \/ \E a \in clients, q \in Quantities : MintRoute(a, q) /\ Other
    \/ \E s \in Slots : LedgerCommit(s) /\ Other
    \/ \E s \in Slots : MintFail(s) /\ Other
    \/ \E s \in Slots : MintRecord(s) /\ Other

Cleanups ==
    \/ RunCleanup
    \/ \E a \in clients : RunUserCleanup(a)
    \/ SweepBatches
    \/ SweepTokenURIs

Reveals ==
    \/ \E a \in clients, id \in TokenIds : RevealRoute(a, id) /\ Other
    \/ RevealCheck /\ Other
    \/ RevealSettle /\ Other

Next == Tick \/ Mints \/ Cleanups \/ Reveals

(* the request handlers of routes/nft.js, the heartbeat and the cleanup   *)
(* passes, one owner                                                       *)
Spec == Init /\ [][Next]_vars

(* the same with two owners *)
SpecTwoOwners == InitTwoOwners /\ [][Next]_vars

(* POST /nft/mint and the scheduled global cleanup only, one owner *)
NextCore ==
    \/ Tick
    \/ \E a \in clients, q \in Quantities : MintRoute(a, q) /\ Other
    \/ \E s \in Slots : LedgerCommit(s) /\ Other
    \/ \E s \in Slots : MintFail(s) /\ Other
    \/ \E s \in Slots : MintRecord(s) /\ Other
    \/ RunCleanup
    \/ SweepBatches
    \/ SweepTokenURIs

SpecCore == Init /\ [][NextCore]_vars

(* POST /nft/mint and POST /nft/reveal only, one owner *)
NextReveal ==
    \/ Tick
    \/ \E a \in clients, q \in Quantities : MintRoute(a, q) /\ Other
    \/ \E s \in Slots : LedgerCommit(s) /\ Other
    \/ \E s \in Slots : MintFail(s) /\ Other
    \/ \E s \in Slots : MintRecord(s) /\ Other
    \/ \E a \in clients, id \in TokenIds : RevealRoute(a, id) /\ Other
    \/ RevealCheck /\ Other
    \/ RevealSettle /\ Other

SpecReveal == Init /\ [][NextReveal]_vars

(* the scheduler: POST /users/heartbeat, the minting cycle, the offline    *)
(* check and the ledger, two owners                                        *)
NextSched ==
    \/ TickTo(MaxSchedTime)
    \/ \E a \in clients, triggerMint \in BOOLEAN :
          Heartbeat(a, triggerMint) /\ Other
    \/ CadenceTick /\ Other
    \/ checkOfflineUsers /\ Other
    \/ \E s \in Slots : LedgerCommit(s) /\ Other
    \/ \E s \in Slots : MintFail(s) /\ Other
    \/ \E s \in Slots : MintRecord(s) /\ Other

SpecSched == InitTwoOwners /\ [][NextSched]_vars

(* the scheduler with one owner, and what node's timers and event loop     *)
(* guarantee: the clock advances, the two setInterval callbacks keep       *)
(* firing, and a call whose tx.wait() has resolved goes on to record.      *)
(* Nothing makes the ledger take or refuse a transaction.                  *)
TimerFairness ==
    /\ WF_vars(TickTo(MaxSchedTime))
    /\ WF_vars(CadenceTick /\ Other)
    /\ WF_vars(checkOfflineUsers /\ Other)

SpecStall ==
    /\ Init /\ [][NextSched]_vars
    /\ TimerFairness
    /\ \A s \in Slots : WF_vars(MintRecord(s) /\ Other)

(* the scheduler with one owner and a ledger on which commits eventually   *)
(* succeed: a transaction may be refused, but one that is submitted again  *)
(* and again is eventually mined and confirmed                             *)
NextLive ==
    \/ TickTo(MaxSchedTime)
    \/ \E a \in clients, triggerMint \in BOOLEAN :
          Heartbeat(a, triggerMint) /\ Other
    \/ CadenceTick /\ Other
    \/ checkOfflineUsers /\ Other
    \/ \E s \in Slots : LedgerCommit(s) /\ Other
    \/ \E s \in Slots : mint[s].pc = "sent" /\ MintFail(s) /\ Other
    \/ \E s \in Slots : MintRecord(s) /\ Other

SpecLive ==
    /\ Init /\ [][NextLive]_vars
    /\ TimerFairness
    /\ \A s \in Slots : SF_vars(LedgerCommit(s) /\ Other)
    /\ \A s \in Slots : WF_vars(MintRecord(s) /\ Other)

(* GET /nft/cleanup/:address of two owners, whose heartbeat starts their   *)
(* issuances, and the scheduled global cleanup                             *)
NextOwners ==
    \/ Tick
    \/ \E s \in Slots : LedgerCommit(s) /\ Other
    \/ \E s \in Slots : MintFail(s) /\ Other
    \/ \E s \in Slots : MintRecord(s) /\ Other
    \/ RunCleanup
    \/ \E a \in clients : RunUserCleanup(a)
    \/ SweepBatches
    \/ SweepTokenURIs

SpecOwners == InitTwoOwners /\ [][NextOwners]_vars

(* the files of a deployment that recorded a batch before batches carried  *)
(* a timestamp: 0xb holds identifiers 1 and 2, committed as root 0         *)
LegacyBatch ==
    [user |-> "0xb", tokenIdRange |-> <<1, 2>>,
     merkleRoot |-> MerkleRoot(generateLeaves(1, 2,
                       [id \in {1, 2} |-> "ipfs://banana"])),
     timestamp |-> 0, commit |-> 0]

InitLegacy ==
    /\ clients = Addresses /\ uriDistribution = {"ipfs://banana"}
    /\ now = 1
    /\ mintedData = [lastTokenId |-> 2,
                     users |-> [o \in Owners |->
                                  IF o = "0xb" THEN <<<<1, 2>>>> ELSE <<>>]]
    /\ tokenURIs = [id \in {1, 2} |-> "ipfs://banana"]
    /\ batches = <<LegacyBatch>>
    /\ loggedUsers = Empty
    /\ ledger = [merkleRoots |-> <<LegacyBatch.merkleRoot>>, tokenIdCounter |-> 2,
                 minted |-> <<Minted("0xb", 1, 2)>>]
    /\ mint = [s \in Slots |-> IdleMint]
    /\ cleanup = IdleCleanup
    /\ reveal = IdleReveal
    /\ response = NoResponse
    /\ recorded = <<<<1, 2>>>>
    /\ interleaved = FALSE
    /\ lastHeartbeat = [o \in Owners |-> 0]
    /\ merkle = NoTree

SpecLegacy == InitLegacy /\ [][NextOwners]_vars

(* The tree on its own: any range of identifiers, its leaves supplied in   *)
(* any order, then a proof for any identifier and the verification of any  *)
(* identifier's leaf with that proof.                                      *)
TreeIds == 1..(MaxLeaves + 2)

Orders(startTokenId, count) ==
    {ids \in [1..count -> Ids(startTokenId, count)] :
        \A i, j \in 1..count : i # j => ids[i] # ids[j]}

InitTree ==
    /\ clients = {} /\ uriDistribution = {"ipfs://banana"} /\ Stores
    /\ \E startTokenId \in 1..2, count \in 1..MaxLeaves :
         \E ids \in Orders(startTokenId, count) :
            merkle = [pc |-> "leaves", ids |-> ids, tree |-> <<>>,
                      target |-> 0, proof |-> <<>>, candidate |-> 0,
                      valid |-> FALSE]

BuildTree ==
    /\ merkle.pc = "leaves"
    /\ merkle' = [merkle EXCEPT
                    !.pc = "built",
                    !.tree = MerkleTree([i \in DOMAIN merkle.ids |->
                                           Leaf(merkle.ids[i])])]
    /\ UNCHANGED <<clients, uriDistribution, lastHeartbeat, now, mintedData,
                   tokenURIs, batches, loggedUsers, ledger, mint, cleanup,
                   reveal, response, recorded, interleaved>>

GetProof(tokenId) ==
    /\ merkle.pc = "built"
    /\ merkle' = [merkle EXCEPT
                    !.pc = "proof", !.target = tokenId,
                    !.proof = getHexProof(merkle.tree, Leaf(tokenId))]
    /\ UNCHANGED <<clients, uriDistribution, lastHeartbeat, now, mintedData,
                   tokenURIs, batches, loggedUsers, ledger, mint, cleanup,
                   reveal, response, recorded, interleaved>>

VerifyLeaf(tokenId) ==
    /\ merkle.pc = "proof"
    /\ merkle' = [merkle EXCEPT
                    !.pc = "verified", !.candidate = tokenId,
                    !.valid = verify(merkle.proof, getHexRoot(merkle.tree),
                                     Leaf(tokenId))]
    /\ UNCHANGED <<clients, uriDistribution, lastHeartbeat, now, mintedData,
                   tokenURIs, batches, loggedUsers, ledger, mint, cleanup,
                   reveal, response, recorded, interleaved>>

NextTree ==
    \/ BuildTree
    \/ \E tokenId \in TreeIds : GetProof(tokenId)
    \/ \E tokenId \in TreeIds : VerifyLeaf(tokenId)

SpecTree == InitTree /\ [][NextTree]_vars

(* POST /nft/mint and POST /nft/reveal of one address, with two designs   *)
(* to draw from                                                            *)
InitTwoURIs ==
    /\ clients = {"0xa"} /\ uriDistribution = URIs
    /\ merkle = NoTree /\ Stores

(* the handlers of one second: the clock does not advance *)
NextRevealNow ==
    \/ \E a \in clients, q \in Quantities : MintRoute(a, q) /\ Other
    \/ \E s \in Slots : LedgerCommit(s) /\ Other
    \/ \E s \in Slots : MintFail(s) /\ Other
    \/ \E s \in Slots : MintRecord(s) /\ Other
    \/ \E a \in clients, id \in TokenIds : RevealRoute(a, id) /\ Other
    \/ RevealCheck /\ Other
    \/ RevealSettle /\ Other

SpecRevealURIs == InitTwoURIs /\ [][NextRevealNow]_vars

(* the same handlers with two owners and one design *)
SpecRevealOwners == InitTwoOwners /\ [][NextRevealNow]_vars

(* POST /nft/mint for full batches and the scheduled global cleanup, one   *)
(* owner, where the cleanup timer keeps firing and an awaited threshold    *)
(* always arrives                                                          *)
NextSweep ==
    \/ Tick
    \/ \E a \in clients : MintRoute(a, NFTsPerUser) /\ Other
    \/ \E s \in Slots : LedgerCommit(s) /\ Other
    \/ \E s \in Slots : MintFail(s) /\ Other
    \/ \E s \in Slots : MintRecord(s) /\ Other
    \/ RunCleanup
    \/ SweepBatches
    \/ SweepTokenURIs

SpecSweep ==
    /\ Init /\ [][NextSweep]_vars
    /\ WF_vars(RunCleanup)
    /\ WF_vars(SweepBatches)
    /\ WF_vars(SweepTokenURIs)

(* a batch of "0xa" that was minted and recorded RevealThreshold + 1       *)
(* seconds ago, so that its reveal window has passed                       *)
ExpiredBatch ==
    [user |-> "0xa", tokenIdRange |-> <<1, 2>>,
     merkleRoot |-> MerkleRoot(generateLeaves(1, 2,
                       [id \in {1, 2} |-> "ipfs://banana"])),
     timestamp |-> MaxTime - (RevealThreshold + 1), commit |-> 0]

InitFail ==
    /\ clients = {"0xA", "0xa"} /\ uriDistribution = {"ipfs://banana"}
    /\ now = MaxTime
    /\ mintedData = [lastTokenId |-> 2,
                     users |-> [o \in Owners |->
                                  IF o = "0xa" THEN <<<<1, 2>>>> ELSE <<>>]]
    /\ tokenURIs = [id \in {1, 2} |-> "ipfs://banana"]
    /\ batches = <<ExpiredBatch>>
    /\ loggedUsers = [a \in {"0xa"} |->
                        [lastActive |-> MaxTime,
                         lastMintTime |-> ExpiredBatch.timestamp]]
    /\ ledger = [merkleRoots |-> <<ExpiredBatch.merkleRoot>>, tokenIdCounter |-> 2,
                 minted |-> <<Minted("0xa", 1, 2)>>]
    /\ mint = [s \in Slots |-> IdleMint]
    /\ cleanup = IdleCleanup
    /\ reveal = IdleReveal
    /\ response = NoResponse
    /\ recorded = <<<<1, 2>>>>
    /\ interleaved = FALSE
    /\ lastHeartbeat = [o \in Owners |-> IF o = "0xa" THEN MaxTime ELSE 0]
    /\ merkle = NoTree

(* every operation with every failure the code can meet: a refused or     *)
(* reverted transaction, a save that throws, missing data; the clock       *)
(* stands still                                                            *)
NextFail ==
    \/ \E a \in clients, q \in Quantities : MintRoute(a, q) /\ Other
    \/ \E s \in Slots : LedgerCommit(s) /\ Other
    \/ \E s \in Slots : MintFail(s) /\ Other
    \/ \E s \in Slots, k \in 1..3 : MintWriteFail(s, k) /\ Other
    \/ \E s \in Slots : MintRecord(s) /\ Other
    \/ RunCleanup
    \/ \E a \in clients : RunUserCleanup(a)
    \/ SweepBatches
    \/ SweepTokenURIs
    \/ CleanupFail
    \/ \E a \in clients, id \in TokenIds : RevealRoute(a, id) /\ Other
    \/ RevealCheck /\ Other
    \/ RevealSettle /\ Other

SpecFail == InitFail /\ [][NextFail]_vars

(* the same files, with POST /nft/reveal *)
NextLegacyReveal ==
    \/ Tick
    \/ \E s \in Slots : LedgerCommit(s) /\ Other
    \/ \E s \in Slots : MintFail(s) /\ Other
    \/ \E s \in Slots : MintRecord(s) /\ Other
    \/ RunCleanup
    \/ SweepBatches
    \/ SweepTokenURIs
    \/ \E a \in clients, id \in TokenIds : RevealRoute(a, id) /\ Other
    \/ RevealCheck /\ Other
    \/ RevealSettle /\ Other

SpecLegacyReveal == InitLegacy /\ [][NextLegacyReveal]_vars

(* the Account Records: heartbeats, the inactivity reaper, DELETE          *)
(* /users/:address and the issuances the heartbeats start, one owner       *)
NextUsers ==
    \/ TickTo(MaxSchedTime)
    \/ \E a \in clients, triggerMint \in BOOLEAN :
          Heartbeat(a, triggerMint) /\ Other
    \/ checkOfflineUsers /\ Other
    \/ \E a \in clients : DeleteUser(a)
    \/ SweepBatches
    \/ SweepTokenURIs
    \/ \E s \in Slots : LedgerCommit(s) /\ Other
    \/ \E s \in Slots : MintFail(s) /\ Other
    \/ \E s \in Slots : MintRecord(s) /\ Other

SpecUsers == Init /\ [][NextUsers]_vars

----------------------------------------------------------------------------
(* Properties *)

Overlap(r1, r2) == Ids(r1[1], r1[2]) \cap Ids(r2[1], r2[2]) # {}

(* C1: the identifier ranges of all batches mintNFTs has ever recorded are *)
(* pairwise disjoint, whatever the interleaving of the calls.              *)
C1_RangesDisjoint ==
    \A i, j \in DOMAIN recorded : i < j => ~Overlap(recorded[i], recorded[j])

(* C2: lastTokenId never decreases, and it changes only in a step in which *)
(* a successful mint records its batch.                                    *)
C2_CounterMonotone ==
    [][/\ mintedData'.lastTokenId >= mintedData.lastTokenId
       /\ mintedData'.lastTokenId # mintedData.lastTokenId
            => Len(recorded') = Len(recorded) + 1]_vars

(* C3: a batch is recorded with startId = (lastTokenId stored just before  *)
(* the recording) + 1, and just after it the stored lastTokenId is         *)
(* startId + count - 1.                                                    *)
C3_StartFollowsCounter ==
    [][Len(recorded') = Len(recorded) + 1
         => LET r == recorded'[Len(recorded')]
            IN  /\ r[1] = mintedData.lastTokenId + 1
                /\ mintedData'.lastTokenId = r[1] + r[2] - 1]_vars

Returned(s) == mint[s].pc # "idle" /\ mint'[s].pc = "idle"

(* C4: a mintNFTs call whose commit or confirmation fails returns          *)
(* success=false and changes none of lastTokenId, the owners' minted       *)
(* ranges, the batch list, the URI map and the Account Records; and every  *)
(* stored batch is the record of a commit the ledger has taken.            *)
C4_FailedCommitWritesNothing ==
    /\ [](\A i \in DOMAIN batches :
            /\ batches[i].commit + 1 \in DOMAIN ledger.merkleRoots
            /\ ledger.merkleRoots[batches[i].commit + 1] = batches[i].merkleRoot)
    /\ [][\A s \in Slots :
            /\ Returned(s) /\ Len(recorded') = Len(recorded)
                 => /\ response' = MintResponse(FALSE)
                    /\ UNCHANGED <<mintedData, batches, tokenURIs, loggedUsers>>
            /\ Returned(s) /\ mint[s].pc = "sent"
                 => Len(recorded') = Len(recorded)]_vars

(* a call has failed while the stores hold an earlier batch and the URI    *)
(* map differs from the copy another suspended call holds                  *)
C4_Witness ==
    /\ response = MintResponse(FALSE)
    /\ Len(batches) >= 1
    /\ \E s \in Slots : mint[s].pc = "mined" /\ mint[s].tokenURIs # tokenURIs

(* C5: the rootIndex revealNFT passes to contract.reveal is the position   *)
(* of the batch's root in the ledger's list of committed roots.            *)
C5_RootIndexIsLedgerPosition ==
    response.op = "reveal" => response.rootIndex = response.batch.commit

(* C6: when a cleanup resumes after mintNFTs appended a batch during its   *)
(* await, the write of the cleanup keeps every stored batch that is not    *)
(* expired.                                                                *)
C6_AppendSurvivesCleanup ==
    [][cleanup.pc = "batches" /\ cleanup'.pc = "uris"
         => \A i \in DOMAIN batches :
               now - batches[i].timestamp < RevealThreshold
                 => \E j \in DOMAIN batches' : batches'[j] = batches[i]]_vars

(* C7: every identifier of every stored batch that is still revealable has *)
(* a token-URI entry.                                                      *)
C7_RevealableHasURI ==
    \A i \in DOMAIN batches :
        now - batches[i].timestamp < RevealThreshold
          => \A id \in BatchIds(batches[i]) : id \in DOMAIN tokenURIs

(* C8: when a cleanup pass ends that no other handler interleaved with,    *)
(* the keys of the URI map are exactly the identifiers of the stored       *)
(* batches that are revealable.                                            *)
C8_URIsMatchBatchesAfterPass ==
    [][cleanup.pc = "uris" /\ cleanup'.pc = "idle" /\ ~interleaved
         => DOMAIN tokenURIs' =
              UNION {BatchIds(batches'[i]) :
                       i \in {j \in DOMAIN batches' :
                                now - batches'[j].timestamp < RevealThreshold}}]_vars

ReportedExpired(r) == r.op = "revealNFT" /\ r.error = "expired"

(* C9: revealNFT does not report a batch expired exactly when              *)
(* now - timestamp < revealThreshold, which is when cleanupExpiredBatches  *)
(* keeps the batch and getUserNFTs lists its tokens as revealable.         *)
C9_SameValidityEverywhere ==
    [][reveal.pc = "threshold" /\ reveal'.pc = "idle"
         => /\ ~ReportedExpired(response')
                 <=> now - reveal.batch.timestamp < RevealThreshold
            /\ ~ReportedExpired(response') <=> CleanupKeeps(reveal.batch, now)
            /\ ~ReportedExpired(response') <=> Revealable(reveal.batch, now)]_vars

Started(owner) ==
    \E s \in Slots : /\ mint[s].pc = "idle"
                     /\ mint'[s].pc = "sent"
                     /\ mint'[s].user = owner

(* the call in slot s records its batch in this step *)
Records(s) ==
    mint[s].pc = "mined" /\ mint'[s].pc = "idle" /\ Len(recorded') > Len(recorded)

(* C12: no two executions of mintNFTs for the same account are in progress *)
(* at the same time.                                                       *)
C12_IssuancePerAccountSerialized ==
    \A s, t \in Slots :
        s # t /\ mint[s].pc # "idle" /\ mint[t].pc # "idle"
          => mint[s].user # mint[t].user

(* C13: when an issuance started by the scheduler succeeds, every earlier  *)
(* successful issuance for the same account lies at least mintInterval     *)
(* back.                                                                   *)
C13_IssuancesIntervalApart ==
    [][\A s \in Slots :
          Records(s)
            => \A i \in DOMAIN batches :
                  batches[i].user = mint[s].user
                    => now - batches[i].timestamp >= MintIntervalSeconds]_vars

(* C14: an updateUserHeartbeat call for an owner less than the inactivity  *)
(* threshold after the previous call for that owner (in any letter case)   *)
(* starts no issuance and only sets lastActive.                            *)
C14_SecondHeartbeatOnlyRefreshes ==
    [][\A a \in clients, triggerMint \in BOOLEAN :
          LET owner == toLowerCase(a)
          IN  (/\ lastHeartbeat[owner] # 0
               /\ now - lastHeartbeat[owner] < UserInactivitySeconds
               /\ Heartbeat(a, triggerMint))
              => /\ mint' = mint
                 /\ owner \in DOMAIN loggedUsers
                 /\ loggedUsers' = [loggedUsers EXCEPT ![owner].lastActive = now]]_vars

(* two heartbeats of one owner a second apart, and one issuance in all *)
C14_Witness ==
    /\ now = 2
    /\ "0xa" \in DOMAIN loggedUsers
    /\ loggedUsers["0xa"] = [lastActive |-> 2, lastMintTime |-> 1]
    /\ Len(ledger.merkleRoots) = 1
    /\ Len(batches) = 1
    /\ \A s \in Slots : mint[s].pc = "idle"

(* C15: updateUserHeartbeat with minting enabled starts an issuance        *)
(* exactly when the owner had no Account Record or the record had          *)
(* now - lastActive > inactivity threshold; a new record is                *)
(* {lastActive: now, lastMintTime: 0}; lastActive becomes now in every     *)
(* case; and when an issuance succeeds the record of its owner, if there   *)
(* is one, has lastMintTime > 0.                                           *)
C15_HeartbeatTriggersOnFirstOrReturn ==
    [][/\ \A a \in clients :
             LET owner == toLowerCase(a)
             IN  Heartbeat(a, TRUE)
                   => /\ Started(owner)
                         <=> \/ owner \notin DOMAIN loggedUsers
                             \/ now - loggedUsers[owner].lastActive
                                   > UserInactivitySeconds
                      /\ owner \notin DOMAIN loggedUsers
                           => loggedUsers'[owner] =
                                [lastActive |-> now, lastMintTime |-> 0]
                      /\ loggedUsers'[owner].lastActive = now
       /\ \A s \in Slots :
             Records(s) /\ mint[s].user \in DOMAIN loggedUsers'
               => loggedUsers'[mint[s].user].lastMintTime > 0]_vars

(* an owner returns after more than the threshold, a second after a batch  *)
(* was recorded for it: the record is not due in the minting cycle, and    *)
(* the heartbeat has started an issuance                                   *)
C15_Witness ==
    /\ now = 4
    /\ lastHeartbeat["0xa"] = 4
    /\ "0xa" \in DOMAIN loggedUsers
    /\ loggedUsers["0xa"] = [lastActive |-> 4, lastMintTime |-> 3]
    /\ Len(batches) = 1
    /\ batches[1].user = "0xa" /\ batches[1].timestamp = 3
    /\ \E s \in Slots : /\ mint[s].pc = "mined"
                         /\ mint[s].user = "0xa"
                         /\ mint[s].startTokenId = 3

(* C16: a minting-cycle tick starts an issuance for a known account        *)
(* exactly when now - lastMintTime >= mintInterval (or the account was     *)
(* never issued to) and changes no Account Record; an issuance that        *)
(* succeeds sets lastMintTime of its account to now and leaves the other   *)
(* records as they are.                                                    *)
C16_CadenceIssuesExactlyWhenDue ==
    [][/\ CadenceTick
           => /\ \A a \in DOMAIN loggedUsers :
                    Started(a)
                      <=> \/ loggedUsers[a].lastMintTime = 0
                          \/ now - loggedUsers[a].lastMintTime
                                >= MintIntervalSeconds
              /\ \A s \in Slots :
                    mint'[s] # mint[s] => mint'[s].user \in DOMAIN loggedUsers
              /\ loggedUsers' = loggedUsers
       /\ \A s \in Slots :
             Records(s) /\ mint[s].user \in DOMAIN loggedUsers
               => loggedUsers' =
                    [loggedUsers EXCEPT ![mint[s].user].lastMintTime = now]]_vars

(* a tick exactly mintInterval after the last issuance for 0xa, with no    *)
(* heartbeat since, has started the next issuance for 0xa                  *)
C16_Witness ==
    /\ "0xa" \in DOMAIN loggedUsers
    /\ loggedUsers["0xa"].lastMintTime = now - MintIntervalSeconds
    /\ lastHeartbeat["0xa"] = now - MintIntervalSeconds
    /\ Len(batches) = 1
    /\ batches[1].user = "0xa" /\ batches[1].timestamp = now - MintIntervalSeconds
    /\ \E s \in Slots : /\ mint[s].pc = "sent"
                         /\ mint[s].user = "0xa"
                         /\ mint[s].startTokenId = 3

(* a call of mintNFTs returns success=false in this step *)
Fails(s) ==
    mint[s].pc # "idle" /\ mint'[s].pc = "idle" /\ Len(recorded') = Len(recorded)

C18_DueAccountReceivesNextBatch ==
    \A k \in 0..(MaxCommits - 1) :
        (/\ Len(batches) = k
         /\ "0xa" \in DOMAIN loggedUsers
         /\ \/ loggedUsers["0xa"].lastMintTime = 0
            \/ now - loggedUsers["0xa"].lastMintTime >= MintIntervalSeconds)
          ~> (Len(batches) > k \/ "0xa" \notin DOMAIN loggedUsers)

(* mintInterval after its first batch, with no heartbeat since, the        *)
(* account has received its second batch                                   *)
C18_Witness ==
    /\ Len(batches) = 2
    /\ batches[1].timestamp = 1
    /\ batches[2].timestamp = 1 + MintIntervalSeconds
    /\ batches[2].tokenIdRange[1] = 3
    /\ lastHeartbeat["0xa"] = 1
    /\ "0xa" \in DOMAIN loggedUsers

(* C19: a call of mintNFTs that waits on the ledger eventually returns.    *)
C19_PendingIssuanceCompletes ==
    \A s \in Slots : (mint[s].pc = "sent") ~> (mint[s].pc = "idle")

(* C20: checkOfflineUsers deletes exactly the Account Records with         *)
(* now - lastActive > inactivity threshold, keeps the others as they are   *)
(* (a record at exactly the threshold too), and leaves the batch list,     *)
(* the URI map and the minted-NFT data unchanged.                          *)
C20_ReaperDeletesExactlyInactive ==
    [][checkOfflineUsers
         => /\ DOMAIN loggedUsers' =
                 {a \in DOMAIN loggedUsers :
                    now - loggedUsers[a].lastActive <= UserInactivitySeconds}
            /\ \A a \in DOMAIN loggedUsers' : loggedUsers'[a] = loggedUsers[a]
            /\ \A a \in DOMAIN loggedUsers :
                   now - loggedUsers[a].lastActive = UserInactivitySeconds
                     => a \in DOMAIN loggedUsers'
            /\ UNCHANGED <<batches, tokenURIs, mintedData>>]_vars

(* 0xb, last active more than the threshold ago, is gone and 0xa, last     *)
(* active exactly the threshold ago, is kept                               *)
C20_Witness ==
    /\ lastHeartbeat["0xb"] = now - UserInactivitySeconds - 1
    /\ lastHeartbeat["0xa"] = now - UserInactivitySeconds
    /\ DOMAIN loggedUsers = {"0xa"}
    /\ loggedUsers["0xa"].lastActive = now - UserInactivitySeconds
    /\ Len(batches) >= 1

(* C21: cleanupUserBatches(owner) removes only batches of the lower-cased  *)
(* owner: every batch of another owner that was in the store when the call *)
(* read it is in the store, unchanged, when the call has written.          *)
C21_UserCleanupKeepsOtherOwners ==
    [][(cleanup.pc = "batches" /\ cleanup.owner # NoUser /\ SweepBatches)
         => \A b \in Range(cleanup.batches) :
               b.user # cleanup.owner => b \in Range(batches')]_vars

(* the call for 0xa has removed a batch and an expired batch of 0xb with   *)
(* the same root is still stored                                           *)
C21_Witness ==
    /\ cleanup.pc = "uris" /\ cleanup.owner = "0xa"
    /\ cleanup.batchesRemoved > 0
    /\ Len(recorded) = 2 /\ recorded[1] = recorded[2]
    /\ \E i \in DOMAIN batches :
          batches[i].user = "0xb" /\ UserCleanupRemoves(batches[i], now)

(* C22: a batch record without a timestamp counts as expired.  The batch   *)
(* sweep that read it (the global one, or the one of its owner) saves a    *)
(* list without it, and the URI sweep removes every identifier that only   *)
(* such records cover.                                                     *)
C22_UnstampedBatchIsExpired ==
    [][/\ (cleanup.pc = "batches" /\ SweepBatches)
            => \A b \in Range(cleanup.batches) :
                  (b.timestamp = 0
                     /\ (cleanup.owner = NoUser \/ b.user = cleanup.owner))
                    => \A c \in Range(batches') :
                          c.commit # b.commit \/ c.user # b.user
       /\ (cleanup.pc = "uris" /\ SweepTokenURIs)
            => \A id \in DOMAIN cleanup.tokenURIs :
                  (\A b \in Range(cleanup.batches) :
                      id \in BatchIds(b) => b.timestamp = 0)
                    => id \notin DOMAIN tokenURIs']_vars

(* in the first second, when only the record without a timestamp can be    *)
(* expired: the pass of 0xa has removed its two URIs, and the batch sweep   *)
(* of the next global pass has removed the record                          *)
C22_Witness ==
    /\ now = 1
    /\ response = CleanupResponse(0, 2)
    /\ cleanup.pc = "uris" /\ cleanup.owner = NoUser
    /\ cleanup.batchesRemoved = 1
    /\ LegacyBatch \notin Range(batches)

(* C23: what revealNFT submits passes the contract's verification: the     *)
(* leaf the contract derives from (tokenId, uri), combined with the proof, *)
(* recomputes the root committed for the batch, which is the root the      *)
(* contract holds at rootIndex.                                            *)
C23_SubmittedRevealVerifies ==
    response.op = "reveal"
      => /\ response.rootIndex \in 0..(Len(ledger.merkleRoots) - 1)
         /\ ledger.merkleRoots[response.rootIndex + 1] = response.batch.merkleRoot
         /\ verify(response.proof, response.batch.merkleRoot,
                   ContractLeaf(response.tokenId, response.uri))

(* C24: the proof extracted for an identifier of the range verifies its    *)
(* leaf against the root of the tree built over the range, and no proof    *)
(* extracted from the tree verifies the leaf of an identifier outside the  *)
(* range.                                                                  *)
C24_ProofSoundness ==
    merkle.pc = "verified"
      => /\ (merkle.candidate = merkle.target
               /\ merkle.target \in Range(merkle.ids)) => merkle.valid
         /\ merkle.candidate \notin Range(merkle.ids) => ~merkle.valid

(* a tree of three leaves: the proof of a paired leaf, two siblings long,  *)
(* has verified its leaf                                                   *)
C24_Witness ==
    /\ merkle.pc = "verified" /\ Len(merkle.ids) = 3
    /\ merkle.candidate = merkle.target
    /\ Len(merkle.proof) = 2
    /\ merkle.valid

(* C26: the root is the same for the same set of identifiers, in whatever  *)
(* order their leaves are supplied: it is the root of the tree built from  *)
(* the leaves generateLeaves supplies, in ascending order, to mintNFTs at  *)
(* commit time and to revealNFT at reveal time.                            *)
C26_RootDeterminism ==
    merkle.pc # "leaves"
      => \E startTokenId \in TreeIds :
            /\ Range(merkle.ids) = Ids(startTokenId, Len(merkle.ids))
            /\ getHexRoot(merkle.tree) =
                 MerkleRoot(generateLeaves(startTokenId, Len(merkle.ids),
                                           [id \in TreeIds |-> "ipfs://banana"]))

(* a tree of three leaves supplied in descending order of identifier *)
C26_Witness ==
    /\ merkle.pc = "built" /\ Len(merkle.ids) = 3
    /\ merkle.ids[1] > merkle.ids[2] /\ merkle.ids[2] > merkle.ids[3]

(* C25: the root of a batch depends on its range alone: the tree revealNFT *)
(* rebuilds over the range of the batch it found, from whatever URIs the   *)
(* map holds now, has the root stored in the batch.                        *)
C25_RebuiltRootIsStoredRoot ==
    (reveal.pc = "threshold"
       /\ LeavesOk(reveal.batch.tokenIdRange[1], reveal.batch.tokenIdRange[2],
                   tokenURIs))
      => MerkleRoot(generateLeaves(reveal.batch.tokenIdRange[1],
                                   reveal.batch.tokenIdRange[2], tokenURIs))
           = reveal.batch.merkleRoot

(* a reveal waits to rebuild the tree of a batch of two identifiers; the   *)
(* map holds different URIs for them, and a mined issuance of the same     *)
(* range is about to save another URI for the revealed identifier          *)
C25_Witness ==
    /\ reveal.pc = "threshold" /\ reveal.batch.tokenIdRange = <<1, 2>>
    /\ DOMAIN tokenURIs = {1, 2} /\ tokenURIs[1] # tokenURIs[2]
    /\ \E s \in Slots :
          /\ mint[s].pc = "mined" /\ mint[s].startTokenId = 1
          /\ reveal.tokenId \in DOMAIN mint[s].tokenURIs
          /\ mint[s].tokenURIs[reveal.tokenId] # tokenURIs[reveal.tokenId]

(* C27: revealNFT(owner, id) answers not-found, with no ledger call, when  *)
(* no stored batch has user = lowercase(owner) and startId <= id <         *)
(* startId + count, also when id lies in a batch of another owner; when    *)
(* such a batch exists, the batch findBatchForToken returns is stored and  *)
(* satisfies both conditions.                                              *)
C27_RevealNeedsOwnedBatch ==
    [][\A a \in clients, id \in TokenIds :
          RevealRoute(a, id)
            => IF \E b \in Range(batches) :
                     /\ b.user = toLowerCase(a)
                     /\ b.tokenIdRange[1] <= id
                     /\ id < b.tokenIdRange[1] + b.tokenIdRange[2]
               THEN /\ reveal'.pc = "threshold"
                    /\ reveal'.batch \in Range(batches)
                    /\ reveal'.batch.user = toLowerCase(a)
                    /\ reveal'.batch.tokenIdRange[1] <= id
                    /\ id < reveal'.batch.tokenIdRange[1]
                              + reveal'.batch.tokenIdRange[2]
               ELSE /\ reveal' = IdleReveal
                    /\ response' = RevealFailure("notfound")
                    /\ ledger' = ledger]_vars

(* every identifier lies in a batch of 0xb, no batch is of another owner,  *)
(* and the last request, which can only be of 0xa, was answered not-found  *)
C27_Witness ==
    /\ response = RevealFailure("notfound") /\ reveal = IdleReveal
    /\ \A b \in Range(batches) : b.user = "0xb"
    /\ \A id \in TokenIds : \E b \in Range(batches) : id \in BatchIds(b)

(* C28: for a token of a batch that revealNFT does not find expired, the   *)
(* call fails (success = false) and calls no ledger reveal whenever the    *)
(* token, or any other identifier of the batch's range, has no entry in    *)
(* the URI map.                                                            *)
C28_MissingURIFailsReveal ==
    [][(reveal.pc = "threshold" /\ RevealCheck
          /\ now - reveal.batch.timestamp <= RevealThreshold
          /\ \E id \in BatchIds(reveal.batch) : id \notin DOMAIN tokenURIs)
         => /\ response'.op = "revealNFT"
            /\ response'.success = FALSE
            /\ ledger' = ledger]_vars

(* the token has its URI and another identifier of its batch has none:     *)
(* generateLeaves has thrown and the call has failed                       *)
C28_Witness ==
    /\ response = RevealFailure("error") /\ reveal = IdleReveal
    /\ \E b \in Range(batches) :
          /\ now - b.timestamp <= RevealThreshold
          /\ BatchIds(b) \cap DOMAIN tokenURIs # {}
          /\ BatchIds(b) \ DOMAIN tokenURIs # {}

(* C29: revealNFT never calls the ledger for a batch that is not in the    *)
(* store at the moment of the call: when a cleanup has removed the batch   *)
(* while the reveal was suspended the reveal fails, and rootIndex is never *)
(* -1.                                                                     *)
C29_RevealOnlyForStoredBatch ==
    [][(reveal.pc = "threshold" /\ RevealCheck /\ response'.op = "reveal")
         => /\ reveal.batch \in Range(batches)
            /\ response'.rootIndex # -1]_vars

ExpiredStored ==
    \E b \in Range(batches) : now - b.timestamp >= RevealThreshold

StaleURIs ==
    \E id \in DOMAIN tokenURIs :
       ~ \E b \in Range(batches) :
            id \in BatchIds(b) /\ now - b.timestamp < RevealThreshold

IsResult(r, op) ==
    /\ r.op = op
    /\ r.success \in BOOLEAN
    /\ ~r.success => "error" \in DOMAIN r

(* C31: mintNFTs, revealNFT, runCleanup and runUserCleanup never let an    *)
(* exception escape: whenever one of them ends, after a refused or         *)
(* reverted transaction or a save that throws as well, it ends with a      *)
(* result, a failure has success = false and an error reason, and the      *)
(* cleanup is idle again, so that the next pass can start.                 *)
C31_FailuresAreResults ==
    [][/\ cleanup'.pc \in {"idle", "batches", "uris"}
       /\ (cleanup.pc # "idle" /\ cleanup'.pc = "idle")
            => cleanup' = IdleCleanup /\ IsResult(response', "runCleanup")
       /\ CleanupFail => ~response'.success /\ cleanup'.pc = "idle"
       /\ \A s \in Slots :
            (mint[s].pc # "idle" /\ mint'[s].pc = "idle")
              => mint'[s] = IdleMint /\ IsResult(response', "mintNFTs")
       /\ \A s \in Slots :
            (MintFail(s) \/ \E k \in 1..3 : MintWriteFail(s, k))
              => ~response'.success
       /\ (reveal.pc # "idle" /\ reveal'.pc = "idle")
            => reveal' = IdleReveal /\ IsResult(response', "revealNFT")
      ]_vars

(* a sweep failed, and a later pass is running *)
C31_Witness ==
    /\ response = CleanupFailure("error")
    /\ cleanup.pc = "uris"
    /\ cleanup.owner = NoUser

(* C32: a stored batch record is never modified.  Every record of the     *)
(* batch list after a step is a record the list held before the step, a   *)
(* record a suspended cleanup pass had read from the list, or the record   *)
(* of the mint that ends in this step; two records of one ledger commit    *)
(* are the same record, in the list and in the copy of a suspended pass:   *)
(* the timestamp a sweep gives a record without one is never saved for a   *)
(* record that stays.                                                      *)
C32_StoredBatchNeverModified ==
    [][/\ \A i \in DOMAIN batches' :
            \/ batches'[i] \in Range(batches)
            \/ batches'[i] \in Range(cleanup.batches)
            \/ \E s \in Slots : MintRecord(s) /\ batches'[i] = NewBatch(s)
       /\ \A b, c \in Range(batches') \cup Range(cleanup'.batches) :
            b.commit = c.commit => b = c
      ]_vars

(* a sweep for "0xa" removed a batch and saved the list, and the record    *)
(* of "0xb" without a timestamp is still in it                             *)
C32_Witness ==
    /\ cleanup.pc = "uris"
    /\ cleanup.owner = "0xa"
    /\ cleanup.batchesRemoved > 0
    /\ LegacyBatch \in Range(batches)

(* C33: revealNFT writes none of the local stores, whether it succeeds or  *)
(* fails.  A step of revealNFT after one of its awaits leaves the batch    *)
(* list, the token-URI map, the minted-NFT data and the Account Records    *)
(* as they are; the step of POST /nft/reveal that calls it leaves the      *)
(* first three as they are and the Account Records as the heartbeat of     *)
(* the route's address validation saves them.                              *)
C33_RevealWritesNoStore ==
    [][/\ (RevealCheck \/ RevealSettle)
            => UNCHANGED <<batches, tokenURIs, mintedData, loggedUsers>>
       /\ \A a \in clients, id \in TokenIds :
            RevealRoute(a, id)
              => /\ UNCHANGED <<batches, tokenURIs, mintedData>>
                 /\ loggedUsers' = HeartbeatUsers(a)
      ]_vars

(* a reveal went through to the ledger and ended; the stores hold a batch  *)
(* and its URIs                                                            *)
C33_Witness ==
    /\ response = RevealFailure("reverted")
    /\ reveal = IdleReveal
    /\ batches # <<>>
    /\ tokenURIs # Empty

(* C34: revealNFT for a token whose batch record has no timestamp fails    *)
(* as expired: when it resumes after its await, the result is the expiry   *)
(* failure and no reveal call is sent to the ledger.                       *)
C34_UnstampedBatchRevealExpired ==
    [][(RevealCheck /\ reveal.batch.timestamp = 0)
          => /\ response'.op = "revealNFT"
             /\ ~response'.success
             /\ response'.error = "expired"
             /\ reveal'.pc # "sent"
      ]_vars

(* C35: cleanupUserBatches(owner) removes exactly the owner's batches      *)
(* whose reveal window has passed and returns their number: every batch    *)
(* of the owner it read with now - timestamp < threshold is in the list    *)
(* after the sweep, also when it has the merkleRoot of an expired batch    *)
(* of that owner, and the list it read is shorter by the number returned.  *)
C35_UserCleanupRemovesExactlyExpired ==
    [][(SweepBatches /\ cleanup.owner # NoUser)
          => /\ \A b \in Range(cleanup.batches) :
                  (b.user = cleanup.owner /\ b.timestamp # 0
                     /\ now - b.timestamp < RevealThreshold)
                    => b \in Range(batches')
             /\ cleanup'.batchesRemoved > 0
                  => Len(batches') = Len(cleanup.batches) - cleanup'.batchesRemoved
      ]_vars

(* C36: the local counter and the ledger agree.  When no mint is running   *)
(* and every commit the ledger took has been recorded, lastTokenId equals  *)
(* the contract's token counter; and the range of every stored batch is    *)
(* the range of identifiers the contract minted to the batch's owner in    *)
(* the commit of the batch's root.                                         *)
C36_LocalIdsAreLedgerIds ==
    /\ ((\A s \in Slots : mint[s].pc = "idle")
          /\ Len(recorded) = Len(ledger.merkleRoots))
         => mintedData.lastTokenId = ledger.tokenIdCounter
    /\ \A b \in Range(batches) :
         ledger.minted[b.commit + 1] = Minted(b.user, b.tokenIdRange[1],
                                              b.tokenIdRange[2])

(* C37: after any interleaving of mintNFTs calls, the range of every       *)
(* stored batch is in its owner's list of minted ranges, so that           *)
(* getUserNFTs(owner) lists every identifier of every stored batch of the  *)
(* owner: a mint never removes or overwrites minted ranges, its own        *)
(* owner's or another's.                                                   *)
C37_BatchRangesAreMintedRanges ==
    \A b \in Range(batches) :
       /\ b.tokenIdRange \in Range(mintedData.users[b.user])
       /\ BatchIds(b) \subseteq getUserNFTs(b.user)

(* C38: one request to an address-validated /nft route starts at most one  *)
(* issuance for its address: the step of a POST /nft/mint, also the first  *)
(* request of an address that has no Account Record, starts at most one    *)
(* mintNFTs call (one ledger commit, one batch).                           *)
C38_OneRequestOneIssuance ==
    [][\A a \in clients, q \in Quantities :
          MintRoute(a, q)
            => Cardinality({s \in Slots : mint[s].pc = "idle"
                                          /\ mint'[s].pc = "sent"}) <= 1
      ]_vars

(* C39: no update of the Account Records is lost.  While a record stays    *)
(* in the store neither its lastActive nor its lastMintTime goes back; a   *)
(* heartbeat leaves the lastMintTime of an existing record as it is; and   *)
(* the mint that ends writes lastMintTime only: it creates no record, so   *)
(* an account removed while its mint was in flight stays removed, and it   *)
(* leaves every lastActive as it is.                                       *)
C39_NoLostAccountUpdate ==
    [][/\ \A a \in DOMAIN loggedUsers \cap DOMAIN loggedUsers' :
            /\ loggedUsers'[a].lastActive >= loggedUsers[a].lastActive
            /\ loggedUsers'[a].lastMintTime >= loggedUsers[a].lastMintTime
       /\ \A c \in clients, triggerMint \in BOOLEAN :
            (Heartbeat(c, triggerMint) /\ toLowerCase(c) \in DOMAIN loggedUsers)
              => loggedUsers'[toLowerCase(c)].lastMintTime
                   = loggedUsers[toLowerCase(c)].lastMintTime
       /\ \A s \in Slots :
            MintRecord(s)
              => /\ DOMAIN loggedUsers' = DOMAIN loggedUsers
                 /\ \A a \in DOMAIN loggedUsers :
                      loggedUsers'[a].lastActive = loggedUsers[a].lastActive
      ]_vars

(* a mint ended after its account was removed by DELETE /users/:address:   *)
(* the reaper cannot have removed the account, the last heartbeat is too   *)
(* recent, and the removal's answer was followed by the mint's result      *)
C39_Witness ==
    /\ response = MintResponse(TRUE)
    /\ "0xa" \notin DOMAIN loggedUsers
    /\ lastHeartbeat["0xa"] > 0
    /\ now - lastHeartbeat["0xa"] <= UserInactivitySeconds

(* C40: with no cleanup running, the batch store holds one record for      *)
(* every ledger commit whose confirmation a mintNFTs call has seen, in     *)
(* the order of the confirmations: no append replaces another, also when   *)
(* the calls overlap.                                                      *)
C40_OneBatchPerConfirmedCommit ==
    /\ Len(batches) = Len(recorded)
    /\ \A i \in DOMAIN batches : batches[i].tokenIdRange = recorded[i]
    /\ \A i, j \in DOMAIN batches :
         i # j => batches[i].commit # batches[j].commit
    /\ Len(batches) + Cardinality({s \in Slots : mint[s].pc = "mined"})
         <= Len(ledger.merkleRoots)

(* two calls that overlapped, both allocated from the same counter value,  *)
(* have both been recorded                                                 *)
C40_Witness ==
    /\ Len(batches) = 2
    /\ batches[1].tokenIdRange[1] = batches[2].tokenIdRange[1]
    /\ \A s \in Slots : mint[s].pc = "idle"

====
